---- MODULE Spec2Model ----
(***************************************************************************)
(* Model of the overlay-over-XFS filesystem driver of grootfs              *)
(* (store/filesystems/overlayxfs/driver.go) and of the counterfeiter       *)
(* double FakeUnmounter (overlayxfsfakes/fake_unmounter.go).               *)
(*                                                                         *)
(* The driver part keeps the directory tree, the mount table and the XFS   *)
(* project quotas the driver's system calls act on.  Every driver method   *)
(* is one action; the system calls it makes are applied in source order    *)
(* to a machine record m = [fs, mounts, quota, log, err] and an early      *)
(* return is a non-empty m.err that every later step passes through.       *)
(* A system call fails either for the reason the kernel gives in the       *)
(* current state (ENOENT, EEXIST, EINVAL ...) or because the environment   *)
(* makes it fail (the fault and fail inputs of the actions).               *)
(***************************************************************************)
EXTENDS Integers, Sequences, FiniteSets, TLC

\* ---------------------------------------------------------------- bounds
NumVolumes == 2
MaxChain == 2
MaxDiskLimit == 2
\* goroutines calling the FakeUnmounter, and the Unmount calls they make in all
NumThreads == 2
MaxCalls == 1

\* ------------------------------------------------------------- constants
UpperDir == "diff"
WorkDir == "workdir"
RootfsDir == "rootfs"
VolumesDirName == "volumes"
ImageDirName == "images"
\* 0700, the permission argument of every os.Mkdir of the driver
DirPerm == 448

\* the driver: directory tree, mount table, project quotas, the last call
VARIABLES fs, mounts, quota, last

\* the FakeUnmounter: its two RWMutexes, its fields, and for every goroutine
\* the method it is in, its position in it, its arguments and locals
VARIABLES mutex, fake, method, ip, phase, local

driverVars == <<fs, mounts, quota, last>>

fakeVars == <<mutex, fake, method, ip, phase, local>>

vars == <<fs, mounts, quota, last, mutex, fake, method, ip, phase, local>>

\* ------------------------------------------------------------------ paths
\* A path is the sequence of its components; filepath.Join appends one.
Join(p, name) == Append(p, name)

Parent(p) == SubSeq(p, 1, Len(p) - 1)

\* q is p or lies below p
IsUnder(q, p) == Len(q) >= Len(p) /\ SubSeq(q, 1, Len(p)) = p

storePath == <<"store">>

volumesPath == Join(storePath, VolumesDirName)

imagesPath == Join(storePath, ImageDirName)

VolumeIds == 1..NumVolumes

\* The image directories the driver is called on: images/<image-id> of one
\* image id (the driver's methods act on the one path they are given).
ImagePaths == {Join(imagesPath, "img")}

DiskLimits == 0..MaxDiskLimit

\* The chains an image can have: non-empty sequences of distinct volume ids.
Chains ==
  {c \in UNION {[1..n -> VolumeIds] : n \in 1..MaxChain} :
     \A i, j \in DOMAIN c : i # j => c[i] # c[j]}

\* ------------------------------------------------------------ system calls
Restrict(f, S) == [x \in S |-> f[x]]

Exists(tree, p) == p \in DOMAIN tree

Mounted(mnt, p) == p \in DOMAIN mnt /\ Len(mnt[p]) > 0

Event(call, path, err) == [call |-> call, path |-> path, err |-> err]

\* the error of a call the environment makes fail; the errors a call gives
\* for the state it finds are ENOENT, EEXIST, EINVAL, EBUSY, ENOTEMPTY
EnvError == "EIO"

\* os.Stat: "" on success, else the error
OsStat(tree, p, fault) ==
  IF fault THEN EnvError ELSE IF Exists(tree, p) THEN "" ELSE "ENOENT"

IsNotExist(e) == e = "ENOENT"

\* os.Mkdir: the error ("" on success)
MkdirErr(tree, p, fault) ==
  IF fault THEN EnvError
  ELSE IF Exists(tree, p) THEN "EEXIST"
  ELSE IF ~Exists(tree, Parent(p)) THEN "ENOENT"
  ELSE ""

\* syscall.Mount of an overlay: every directory it names must exist
MountErr(tree, target, data, fault) ==
  IF fault THEN EnvError
  ELSE IF /\ Exists(tree, target)
          /\ Exists(tree, data.upperdir)
          /\ Exists(tree, data.workdir)
          /\ \A i \in DOMAIN data.lowerdir : Exists(tree, data.lowerdir[i])
       THEN ""
  ELSE "ENOENT"

\* syscall.Unmount: the target must exist and carry a mount
UnmountErr(tree, mnt, target, fault) ==
  IF fault THEN EnvError
  ELSE IF ~Exists(tree, target) THEN "ENOENT"
  ELSE IF ~Mounted(mnt, target) THEN "EINVAL"
  ELSE ""

\* os.Remove of a directory: it must exist, be empty and carry no mount
RemoveErr(tree, mnt, p, fault) ==
  IF fault THEN EnvError
  ELSE IF ~Exists(tree, p) THEN "ENOENT"
  ELSE IF Mounted(mnt, p) THEN "EBUSY"
  ELSE IF \E q \in DOMAIN tree : q # p /\ IsUnder(q, p) THEN "ENOTEMPTY"
  ELSE ""

\* os.RemoveAll: an absent path is a success
RemoveAllErr(tree, mnt, p, fault) ==
  IF fault THEN EnvError
  ELSE IF \E q \in DOMAIN mnt : IsUnder(q, p) /\ Mounted(mnt, q) THEN "EBUSY"
  ELSE ""

\* quota.NewControl and Control.SetQuota: the directory must exist
QuotaErr(tree, p, fault) ==
  IF fault THEN EnvError ELSE IF ~Exists(tree, p) THEN "ENOENT" ELSE ""

\* ------------------------------------------------------- the machine record
\* An error is the chain of its messages, outermost first; nil is <<>>.
Nil == <<>>

\* errors.Wrap(cause, msg)
Wrap(cause, msg) == <<msg>> \o cause

Machine == [fs |-> fs, mounts |-> mounts, quota |-> quota, log |-> <<>>, err |-> Nil]

Logged(m, ev) == [m EXCEPT !.log = Append(@, ev)]

\* the call ev failed with e and the method returns errors.Wrap(e, msg)
Failed(m, ev, e, msg) == [Logged(m, ev) EXCEPT !.err = Wrap(<<e>>, msg)]

\* if _, err := os.Stat(p); os.IsNotExist(err) { return errors.Wrap(err, msg) }
StatStep(m, p, fault, msg) ==
  LET e == OsStat(m.fs, p, fault)
      ev == Event("Stat", p, e)
  IN IF m.err # Nil THEN m
     ELSE IF IsNotExist(e) THEN Failed(m, ev, e, msg)
     ELSE Logged(m, ev)

\* if err := os.Mkdir(p, perm); err != nil { return errors.Wrap(err, msg) }
MkdirStep(m, p, perm, fault, msg) ==
  LET e == MkdirErr(m.fs, p, fault)
      ev == Event("Mkdir", p, e)
  IN IF m.err # Nil THEN m
     ELSE IF e # "" THEN Failed(m, ev, e, msg)
     ELSE [Logged(m, ev) EXCEPT !.fs = p :> perm @@ @]

\* applyDiskLimit with the error of SetQuota dropped
applyDiskLimit_Unchecked(m, spec, fail) ==
  LET e1 == QuotaErr(m.fs, imagesPath, fail = "NewControl")
      ev1 == Event("NewControl", imagesPath, e1)
      size == spec.DiskLimit
      e2 == QuotaErr(m.fs, spec.ImagePath, fail = "SetQuota")
      ev2 == [call |-> "SetQuota", path |-> spec.ImagePath, size |-> size, err |-> e2]
  IN IF m.err # Nil THEN m
     ELSE IF spec.DiskLimit = 0 THEN m
     ELSE IF e1 # "" THEN Failed(m, ev1, e1, "creating xfs quota control")
     ELSE IF e2 # "" THEN Logged(Logged(m, ev1), ev2)
     ELSE [Logged(Logged(m, ev1), ev2) EXCEPT !.quota = spec.ImagePath :> size @@ @]

\* Driver.applyDiskLimit; fail names the call the environment makes fail
applyDiskLimit(m, spec, fail) ==
  LET e1 == QuotaErr(m.fs, imagesPath, fail = "NewControl")
      ev1 == Event("NewControl", imagesPath, e1)
      size == spec.DiskLimit
      e2 == QuotaErr(m.fs, spec.ImagePath, fail = "SetQuota")
      ev2 == [call |-> "SetQuota", path |-> spec.ImagePath, size |-> size, err |-> e2]
  IN IF m.err # Nil THEN m
     ELSE IF spec.DiskLimit = 0 THEN m
     ELSE IF e1 # "" THEN Failed(m, ev1, e1, "creating xfs quota control")
     ELSE IF e2 # "" THEN Failed(Logged(m, ev1), ev2, e2, "setting quota")
     ELSE [Logged(Logged(m, ev1), ev2) EXCEPT !.quota = spec.ImagePath :> size @@ @]

\* if err := d.applyDiskLimit(logger, spec); err != nil { return errors.Wrap(...) }
DiskLimitStep(m, spec, fail) ==
  LET r == applyDiskLimit(m, spec, fail)
  IN IF m.err # Nil THEN m
     ELSE IF r.err # Nil THEN [r EXCEPT !.err = Wrap(@, "applying disk limits")]
     ELSE r

\* mountData of CreateImage: lowerdir is the list of lower paths
MountData(spec) ==
  [lowerdir |-> <<spec.BaseVolumePath>>,
   upperdir |-> Join(spec.ImagePath, UpperDir),
   workdir |-> Join(spec.ImagePath, WorkDir)]

\* syscall.Mount("overlay", target, "overlay", 0, mountData)
MountStep(m, target, data, fault, msg) ==
  LET e == MountErr(m.fs, target, data, fault)
      ev == [call |-> "Mount", path |-> target, data |-> data, err |-> e]
      stack == IF target \in DOMAIN m.mounts THEN m.mounts[target] ELSE <<>>
  IN IF m.err # Nil THEN m
     ELSE IF e # "" THEN Failed(m, ev, e, msg)
     ELSE [Logged(m, ev) EXCEPT !.mounts = target :> Append(stack, data) @@ @]

\* syscall.Unmount(target, 0): takes the topmost mount off target
UnmountStep(m, target, fault, msg) ==
  LET e == UnmountErr(m.fs, m.mounts, target, fault)
      ev == Event("Unmount", target, e)
  IN IF m.err # Nil THEN m
     ELSE IF e # "" THEN Failed(m, ev, e, msg)
     ELSE [Logged(m, ev) EXCEPT
             !.mounts = IF Len(@[target]) = 1
                        THEN Restrict(@, DOMAIN @ \ {target})
                        ELSE [@ EXCEPT ![target] = SubSeq(@, 1, Len(@) - 1)]]

\* os.Remove(p) with its error dropped
RemoveStep_Unchecked(m, p, fault, msg) ==
  LET e == RemoveErr(m.fs, m.mounts, p, fault)
      ev == Event("Remove", p, e)
  IN IF m.err # Nil THEN m
     ELSE IF e # "" THEN Logged(m, ev)
     ELSE [Logged(m, ev) EXCEPT !.fs = Restrict(@, DOMAIN @ \ {p})]

\* os.Remove(p)
RemoveStep(m, p, fault, msg) ==
  LET e == RemoveErr(m.fs, m.mounts, p, fault)
      ev == Event("Remove", p, e)
  IN IF m.err # Nil THEN m
     ELSE IF e # "" THEN Failed(m, ev, e, msg)
     ELSE [Logged(m, ev) EXCEPT !.fs = Restrict(@, DOMAIN @ \ {p})]

\* os.RemoveAll(p): removes p and everything below it
RemoveAllStep(m, p, fault, msg) ==
  LET e == RemoveAllErr(m.fs, m.mounts, p, fault)
      ev == Event("RemoveAll", p, e)
  IN IF m.err # Nil THEN m
     ELSE IF e # "" THEN Failed(m, ev, e, msg)
     ELSE [Logged(m, ev) EXCEPT
             !.fs = Restrict(@, {q \in DOMAIN @ : ~IsUnder(q, p)})]

\* what lies at and below path p: directories, mounts and quotas
Snapshot(p) ==
  [fs |-> Restrict(fs, {q \in DOMAIN fs : IsUnder(q, p)}),
   mounts |-> Restrict(mounts, {q \in DOMAIN mounts : IsUnder(q, p) /\ Mounted(mounts, q)}),
   quota |-> Restrict(quota, {q \in DOMAIN quota : IsUnder(q, p)})]

NoSpec == [ImagePath |-> <<>>, BaseVolumePath |-> <<>>, DiskLimit |-> 0]

\* the record of one call of a driver method
Call(op, path, spec, m, ret) ==
  [op |-> op, path |-> path, spec |-> spec,
   err |-> m.err, ret |-> ret, log |-> m.log, pre |-> Snapshot(path)]

Commit(m) == /\ fs' = m.fs
             /\ mounts' = m.mounts
             /\ quota' = m.quota

\* ------------------------------------------------------------ the driver
\* Driver.VolumePath
VolumePath(id, fault) ==
  LET volPath == Join(volumesPath, id)
      e == OsStat(fs, volPath, fault = "Stat")
      m == IF e = "" THEN Logged(Machine, Event("Stat", volPath, e))
           ELSE Failed(Machine, Event("Stat", volPath, e), e, "volume does not exist")
  IN /\ Commit(m)
     /\ last' = Call("VolumePath", volPath, NoSpec, m,
                     IF e = "" THEN volPath ELSE <<>>)

\* CreateVolume with os.MkdirAll, which succeeds on an existing directory
CreateVolume_MkdirAll(parentID, id, fault) ==
  LET volumePath == Join(volumesPath, id)
      m == IF Exists(fs, volumePath) /\ fault # "Mkdir"
           THEN Logged(Machine, Event("Mkdir", volumePath, ""))
           ELSE MkdirStep(Machine, volumePath, DirPerm, fault = "Mkdir", "creating volume")
  IN /\ Commit(m)
     /\ last' = Call("CreateVolume", volumePath, NoSpec, m,
                     IF m.err = Nil THEN volumePath ELSE <<>>)

\* Driver.CreateVolume
CreateVolume(parentID, id, fault) ==
  LET volumePath == Join(volumesPath, id)
      m == MkdirStep(Machine, volumePath, DirPerm, fault = "Mkdir", "creating volume")
  IN /\ Commit(m)
     /\ last' = Call("CreateVolume", volumePath, NoSpec, m,
                     IF m.err = Nil THEN volumePath ELSE <<>>)

\* Driver.DestroyVolume, Driver.Volumes, Driver.FetchStats: panic("not implemented")
Panic(op) ==
  /\ UNCHANGED <<fs, mounts, quota>>
  /\ last' = Call(op, storePath, NoSpec,
                  [Machine EXCEPT !.err = <<"panic: not implemented">>], <<>>)

\* Driver.CreateImage; fail names the call the environment makes fail
CreateImage(spec, fail) ==
  LET upperDir == Join(spec.ImagePath, UpperDir)
      workDir == Join(spec.ImagePath, WorkDir)
      rootfsDir == Join(spec.ImagePath, RootfsDir)
      m1 == StatStep(Machine, spec.ImagePath, fail = "StatImagePath", "image path does not exist")
      m2 == StatStep(m1, spec.BaseVolumePath, fail = "StatBaseVolumePath", "base volume path does not exist")
      m3 == DiskLimitStep(m2, spec, fail)
      m4 == MkdirStep(m3, upperDir, DirPerm, fail = "MkdirUpper", "creating upperdir folder")
      m5 == MkdirStep(m4, workDir, DirPerm, fail = "MkdirWork", "creating workdir folder")
      m6 == MkdirStep(m5, rootfsDir, DirPerm, fail = "MkdirRootfs", "creating rootfs folder")
      m7 == MountStep(m6, rootfsDir, MountData(spec), fail = "Mount", "mounting overlay")
  IN /\ Commit(m7)
     /\ last' = Call("CreateImage", spec.ImagePath, spec, m7, <<>>)

\* DestroyImage without the removal of the upper directory
DestroyImage_LeavesUpper(imagePath, fail) ==
  LET m1 == UnmountStep(Machine, Join(imagePath, RootfsDir), fail = "Unmount",
                        "unmounting rootfs folder")
      m2 == RemoveStep(m1, Join(imagePath, RootfsDir), fail = "Remove",
                       "deleting rootfs folder")
      m3 == RemoveAllStep(m2, Join(imagePath, WorkDir), fail = "RemoveAllWork",
                          "deleting workdir folder")
  IN /\ Commit(m3)
     /\ last' = Call("DestroyImage", imagePath, NoSpec, m3, <<>>)

\* Driver.DestroyImage; fail names the call the environment makes fail
DestroyImage(imagePath, fail) ==
  LET m1 == UnmountStep(Machine, Join(imagePath, RootfsDir), fail = "Unmount",
                        "unmounting rootfs folder")
      m2 == RemoveStep(m1, Join(imagePath, RootfsDir), fail = "Remove",
                       "deleting rootfs folder")
      m3 == RemoveAllStep(m2, Join(imagePath, WorkDir), fail = "RemoveAllWork",
                          "deleting workdir folder")
      m4 == RemoveAllStep(m3, Join(imagePath, UpperDir), fail = "RemoveAllUpper",
                          "deleting upperdir folder")
  IN /\ Commit(m4)
     /\ last' = Call("DestroyImage", imagePath, NoSpec, m4, <<>>)

\* ------------------------------------------------------- the FakeUnmounter
Threads == 1..NumThreads

Results == {"nil", "err"}

\* A method is the sequence of its lock operations and of the bodies between
\* them; a deferred unlock stands where it runs, at the end of the method.
Lock(mu) == [ins |-> "Lock", mu |-> mu]

Unlock(mu) == [ins |-> "Unlock", mu |-> mu]

RLock(mu) == [ins |-> "RLock", mu |-> mu]

RUnlock(mu) == [ins |-> "RUnlock", mu |-> mu]

Body(what) == [ins |-> "Body", mu |-> "", what |-> what]

\* FakeUnmounter.recordInvocation
recordInvocation == <<Lock("invocations"), Body("record"), Unlock("invocations")>>

\* FakeUnmounter.Unmount
Unmount ==
  <<Lock("unmount"), Body("enter")>> \o recordInvocation
     \o <<Unlock("unmount"), Body("result")>>

\* FakeUnmounter.UnmountCallCount
UnmountCallCount == <<RLock("unmount"), Body("count"), RUnlock("unmount")>>

\* FakeUnmounter.UnmountCalls
UnmountCalls == <<Lock("unmount"), Body("setStub"), Unlock("unmount")>>

\* FakeUnmounter.UnmountArgsForCall
UnmountArgsForCall == <<RLock("unmount"), Body("args"), RUnlock("unmount")>>

\* FakeUnmounter.UnmountReturns
UnmountReturns == <<Lock("unmount"), Body("setReturns"), Unlock("unmount")>>

\* FakeUnmounter.UnmountReturnsOnCall
UnmountReturnsOnCall == <<Lock("unmount"), Body("setReturnsOnCall"), Unlock("unmount")>>

\* FakeUnmounter.Invocations
Invocations ==
  <<RLock("invocations"), RLock("unmount"), Body("copy"),
    RUnlock("unmount"), RUnlock("invocations")>>

Methods ==
  {"Unmount", "UnmountCallCount", "UnmountCalls", "UnmountArgsForCall",
   "UnmountReturns", "UnmountReturnsOnCall", "Invocations"}

Program(meth) ==
  CASE meth = "Unmount" -> Unmount
    [] meth = "UnmountCallCount" -> UnmountCallCount
    [] meth = "UnmountCalls" -> UnmountCalls
    [] meth = "UnmountArgsForCall" -> UnmountArgsForCall
    [] meth = "UnmountReturns" -> UnmountReturns
    [] meth = "UnmountReturnsOnCall" -> UnmountReturnsOnCall
    [] meth = "Invocations" -> Invocations

Running(t) == method[t] # "idle" /\ ip[t] <= Len(Program(method[t]))

Instr(t) == Program(method[t])[ip[t]]

AtInstr(t, ins) == Running(t) /\ Instr(t).ins = ins

\* sync.RWMutex: w is the goroutine holding the writers' mutex (0: none),
\* pending says a writer has announced itself (readerCount < 0), readers are
\* the goroutines holding a read lock, asleep those parked in RLock
FreeMutex == [w |-> 0, pending |-> FALSE, readers |-> {}, asleep |-> {}]

Step(t) == ip' = [ip EXCEPT ![t] = @ + 1]

\* the locals of a goroutine outside a call
NoLocal ==
  [arg2 |-> "", i |-> 0, r |-> "nil", stub |-> FALSE, specificReturn |-> FALSE,
   ret |-> "nil", fakeReturns |-> "nil", out |-> "none"]

\* A goroutine calls a method of the fake: Unmount(logger, arg2),
\* UnmountArgsForCall(i), UnmountReturns(r), UnmountReturnsOnCall(i, r).
CallFake(t, meth, i, r) ==
  /\ method[t] = "idle"
  /\ meth \notin {"UnmountArgsForCall", "UnmountReturnsOnCall"} => i = 0
  /\ meth \notin {"UnmountReturns", "UnmountReturnsOnCall"} => r = "nil"
  /\ meth = "Unmount" =>
        Len(fake.unmountArgsForCall)
          + Cardinality({u \in Threads : method[u] = "Unmount" /\ ip[u] <= 2}) < MaxCalls
  /\ method' = [method EXCEPT ![t] = meth]
  /\ ip' = [ip EXCEPT ![t] = 1]
  /\ local' = [local EXCEPT ![t] =
       [NoLocal EXCEPT !.i = i, !.r = r,
                       !.arg2 = IF meth = "Unmount" THEN "rootfs" ELSE ""]]
  /\ UNCHANGED <<mutex, fake, phase>>
  /\ UNCHANGED driverVars

\* RWMutex.Lock, first half: take the writers' mutex and announce the writer
LockAnnounce(t) ==
  /\ AtInstr(t, "Lock") /\ phase[t] = "run"
  /\ mutex[Instr(t).mu].w = 0
  /\ mutex' = [mutex EXCEPT ![Instr(t).mu].w = t, ![Instr(t).mu].pending = TRUE]
  /\ phase' = [phase EXCEPT ![t] = "waitReaders"]
  /\ UNCHANGED <<fake, method, ip, local>>
  /\ UNCHANGED driverVars

\* RWMutex.Lock, second half: wait until the readers have left
LockAcquire(t) ==
  /\ AtInstr(t, "Lock") /\ phase[t] = "waitReaders"
  /\ mutex[Instr(t).mu].readers = {}
  /\ phase' = [phase EXCEPT ![t] = "run"]
  /\ Step(t)
  /\ UNCHANGED <<mutex, fake, method, local>>
  /\ UNCHANGED driverVars

\* RWMutex.Unlock: wake the parked readers, release the writers' mutex
DoUnlock(t) ==
  /\ AtInstr(t, "Unlock")
  /\ mutex' = [mutex EXCEPT ![Instr(t).mu] =
                 [w |-> 0, pending |-> FALSE, readers |-> @.readers \cup @.asleep,
                  asleep |-> {}]]
  /\ Step(t)
  /\ UNCHANGED <<fake, method, phase, local>>
  /\ UNCHANGED driverVars

\* RWMutex.RLock: a pending writer parks the reader
DoRLock(t) ==
  /\ AtInstr(t, "RLock") /\ phase[t] = "run"
  /\ IF mutex[Instr(t).mu].pending
     THEN /\ mutex' = [mutex EXCEPT ![Instr(t).mu].asleep = @ \cup {t}]
          /\ phase' = [phase EXCEPT ![t] = "asleep"]
          /\ UNCHANGED ip
     ELSE /\ mutex' = [mutex EXCEPT ![Instr(t).mu].readers = @ \cup {t}]
          /\ Step(t)
          /\ UNCHANGED phase
  /\ UNCHANGED <<fake, method, local>>
  /\ UNCHANGED driverVars

\* a parked reader goes on once the writer's Unlock has admitted it
RLockWake(t) ==
  /\ AtInstr(t, "RLock") /\ phase[t] = "asleep"
  /\ t \in mutex[Instr(t).mu].readers
  /\ phase' = [phase EXCEPT ![t] = "run"]
  /\ Step(t)
  /\ UNCHANGED <<mutex, fake, method, local>>
  /\ UNCHANGED driverVars

\* RWMutex.RUnlock
DoRUnlock(t) ==
  /\ AtInstr(t, "RUnlock")
  /\ mutex' = [mutex EXCEPT ![Instr(t).mu].readers = @ \ {t}]
  /\ Step(t)
  /\ UNCHANGED <<fake, method, phase, local>>
  /\ UNCHANGED driverVars

\* the statements of the methods between their lock operations
DoBody(t) ==
  /\ AtInstr(t, "Body")
  /\ LET what == Instr(t).what
         n == Len(fake.unmountArgsForCall)
         l == local[t]
     IN CASE what = "enter" ->
               /\ fake' = [fake EXCEPT !.unmountArgsForCall = Append(@, l.arg2)]
               /\ local' = [local EXCEPT ![t] =
                    [l EXCEPT !.specificReturn = n \in DOMAIN fake.unmountReturnsOnCall,
                              !.ret = IF n \in DOMAIN fake.unmountReturnsOnCall
                                      THEN fake.unmountReturnsOnCall[n] ELSE "nil",
                              !.stub = fake.UnmountStub,
                              !.fakeReturns = fake.unmountReturns]]
          [] what = "record" ->
               /\ fake' = [fake EXCEPT !.invocations = Append(@, <<"Unmount", l.arg2>>)]
               /\ UNCHANGED local
          [] what = "result" ->
               /\ local' = [local EXCEPT ![t].out =
                    IF l.stub THEN "stub"
                    ELSE IF l.specificReturn THEN l.ret
                    ELSE l.fakeReturns]
               /\ UNCHANGED fake
          [] what = "count" ->
               /\ local' = [local EXCEPT ![t].out = IF n = 0 THEN "0" ELSE "some"]
               /\ UNCHANGED fake
          [] what = "setStub" ->
               /\ fake' = [fake EXCEPT !.UnmountStub = TRUE]
               /\ UNCHANGED local
          [] what = "args" ->
               /\ local' = [local EXCEPT ![t].out =
                    IF l.i + 1 \in DOMAIN fake.unmountArgsForCall
                    THEN "args" ELSE "panic"]
               /\ UNCHANGED fake
          [] what = "setReturns" ->
               /\ fake' = [fake EXCEPT !.UnmountStub = FALSE, !.unmountReturns = l.r]
               /\ UNCHANGED local
          [] what = "setReturnsOnCall" ->
               /\ fake' = [fake EXCEPT !.UnmountStub = FALSE,
                                       !.unmountReturnsOnCall = l.i :> l.r @@ @]
               /\ UNCHANGED local
          [] what = "copy" ->
               /\ local' = [local EXCEPT ![t].out =
                    IF fake.invocations = <<>> THEN "0" ELSE "some"]
               /\ UNCHANGED fake
  /\ Step(t)
  /\ UNCHANGED <<mutex, method, phase>>
  /\ UNCHANGED driverVars

\* the method returns local[t].out to its caller
Return(t) ==
  /\ method[t] # "idle" /\ ip[t] > Len(Program(method[t]))
  /\ method' = [method EXCEPT ![t] = "idle"]
  /\ ip' = [ip EXCEPT ![t] = 1]
  /\ local' = [local EXCEPT ![t] = NoLocal]
  /\ UNCHANGED <<mutex, fake, phase>>
  /\ UNCHANGED driverVars

\* --------------------------------------------------------- specification
\* the call of CreateImage the environment makes fail, if any
CreateFaults ==
  {"none", "StatImagePath", "StatBaseVolumePath", "NewControl", "SetQuota",
   "MkdirUpper", "MkdirWork", "MkdirRootfs", "Mount"}

DestroyFaults == {"none", "Unmount", "Remove", "RemoveAllWork", "RemoveAllUpper"}

\* The driver is handed a store whose skeleton exists; the image directories
\* images/<id> are made by its caller before create-image.
BaseTree == [p \in {storePath, volumesPath, imagesPath} |-> DirPerm]

NoCall ==
  [op |-> "none", path |-> <<>>, spec |-> NoSpec, err |-> Nil,
   ret |-> <<>>, log |-> <<>>, pre |-> [fs |-> <<>>, mounts |-> <<>>, quota |-> <<>>]]

DriverInit ==
  /\ \E made \in SUBSET ImagePaths : fs = [p \in made |-> DirPerm] @@ BaseTree
  /\ mounts = <<>>
  /\ quota = <<>>
  /\ last = NoCall

\* new(FakeUnmounter): zero mutexes, nil fields
FakeInit ==
  /\ mutex = [mu \in {"unmount", "invocations"} |-> FreeMutex]
  /\ fake = [UnmountStub |-> FALSE, unmountArgsForCall |-> <<>>,
             unmountReturns |-> "nil", unmountReturnsOnCall |-> <<>>,
             invocations |-> <<>>]
  /\ method = [t \in Threads |-> "idle"]
  /\ ip = [t \in Threads |-> 1]
  /\ phase = [t \in Threads |-> "run"]
  /\ local = [t \in Threads |-> NoLocal]

Init == DriverInit /\ FakeInit

DoVolumePath ==
  /\ \E id \in VolumeIds, fault \in {"none", "Stat"} : VolumePath(id, fault)
  /\ UNCHANGED fakeVars

DoCreateVolume ==
  /\ \E parentID \in VolumeIds \cup {0}, id \in VolumeIds, fault \in {"none", "Mkdir"} :
     CreateVolume(parentID, id, fault)
  /\ UNCHANGED fakeVars

DoPanic ==
  /\ \E op \in {"DestroyVolume", "Volumes", "FetchStats"} : Panic(op)
  /\ UNCHANGED fakeVars

DoCreateImage ==
  /\ \E p \in ImagePaths, v \in VolumeIds, limit \in DiskLimits, fail \in CreateFaults :
        CreateImage([ImagePath |-> p,
                     BaseVolumePath |-> Join(volumesPath, v),
                     DiskLimit |-> limit], fail)
  /\ UNCHANGED fakeVars

DoDestroyImage ==
  /\ \E p \in ImagePaths, fail \in DestroyFaults : DestroyImage(p, fail)
  /\ UNCHANGED fakeVars

Next ==
  \/ DoVolumePath
  \/ DoCreateVolume
  \/ DoPanic
  \/ DoCreateImage
  \/ DoDestroyImage

\* the driver's methods, called one after the other in any order
Spec == Init /\ [][Next]_vars

DoCallFake ==
  \E t \in Threads, meth \in Methods, i \in 0..(MaxCalls - 1), r \in Results :
     CallFake(t, meth, i, r)

FakeNext ==
  \/ DoCallFake
  \/ \E t \in Threads : LockAnnounce(t)
  \/ \E t \in Threads : LockAcquire(t)
  \/ \E t \in Threads : DoUnlock(t)
  \/ \E t \in Threads : DoRLock(t)
  \/ \E t \in Threads : RLockWake(t)
  \/ \E t \in Threads : DoRUnlock(t)
  \/ \E t \in Threads : DoBody(t)
  \/ \E t \in Threads : Return(t)

FakeSpecInit == Init /\ fs = BaseTree

\* goroutines calling the methods of one FakeUnmounter concurrently
FakeSpec == FakeSpecInit /\ [][FakeNext]_vars

\* ------------------------------------------------------------------ claims
upperOf(p) == Join(p, UpperDir)

workOf(p) == Join(p, WorkDir)

rootfsOf(p) == Join(p, RootfsDir)

VolPath(id) == Join(volumesPath, id)

\* the positions of the log where call c was made
At(log, c) == {i \in DOMAIN log : log[i].call = c}

\* some call of the log was made to fail by the environment
EnvFailed(log) == \E i \in DOMAIN log : log[i].err = EnvError

\* the paths of a chain of volume ids, in chain order
ChainPaths(chain) == [i \in DOMAIN chain |-> VolPath(chain[i])]

\* the chains the base volume path handed to the driver belongs to
ChainsOf(baseVolumePath) ==
  {c \in Chains : \E i \in DOMAIN c : VolPath(c[i]) = baseVolumePath}

\* the mount on top of path p
TopMount(p) == mounts[p][Len(mounts[p])]

\* C1: after every successful create-image, diff/, workdir/ and rootfs/ exist
\* in image-path and rootfs/ carries an overlay mount whose upperdir is diff/,
\* whose workdir is workdir/ and whose lowerdir lists ALL the volume paths of
\* the image's chain in chain order, whichever chain the base volume belongs to.
C1_LowerdirIsWholeChain ==
  (last.op = "CreateImage" /\ last.err = Nil) =>
     /\ Exists(fs, upperOf(last.path))
     /\ Exists(fs, workOf(last.path))
     /\ Exists(fs, rootfsOf(last.path))
     /\ Mounted(mounts, rootfsOf(last.path))
     /\ TopMount(rootfsOf(last.path)).upperdir = upperOf(last.path)
     /\ TopMount(rootfsOf(last.path)).workdir = workOf(last.path)
     /\ \A c \in ChainsOf(last.spec.BaseVolumePath) :
           TopMount(rootfsOf(last.path)).lowerdir = ChainPaths(c)

\* C2: in every create-image, with disk-limit > 0 the mount is attempted only
\* after a quota of exactly disk-limit was set on image-path with success (so
\* never after a failed quota call), the quota calls come right after the
\* existence checks, and a successful call leaves that quota in force; with
\* disk-limit = 0 no quota call is made, the quota is left as it was, and the
\* call goes on to create diff/ right after the existence checks.
C2_QuotaBeforeMount ==
  (last.op = "CreateImage") =>
     LET log == last.log
         limit == last.spec.DiskLimit
     IN /\ limit > 0 =>
             /\ \A j \in At(log, "Mount") :
                   \E i \in At(log, "SetQuota") :
                      /\ i < j
                      /\ log[i].path = last.path
                      /\ log[i].size = limit
                      /\ log[i].err = ""
             /\ \A i \in At(log, "SetQuota") \cup At(log, "NewControl") :
                   log[i].err # "" => At(log, "Mount") \cup At(log, "Mkdir") = {}
             /\ Len(log) > 2 => log[3].call = "NewControl"
             /\ (Len(log) > 3) =>
                   /\ log[4].call = "SetQuota"
                   /\ log[4].size = limit
                   /\ log[4].path = last.path
             /\ last.err = Nil =>
                   last.path \in DOMAIN quota /\ quota[last.path] = limit
        /\ limit = 0 =>
             /\ At(log, "SetQuota") \cup At(log, "NewControl") = {}
             /\ Restrict(quota, {q \in DOMAIN quota : IsUnder(q, last.path)}) = last.pre.quota
             /\ Len(log) > 2 =>
                   log[3].call = "Mkdir" /\ log[3].path = upperOf(last.path)
             /\ last.err = Nil => At(log, "Mount") # {}

\* a create-image with a disk limit that set the quota and then mounted
C2_Witness ==
  /\ last.op = "CreateImage"
  /\ last.spec.DiskLimit > 0
  /\ last.err = Nil
  /\ At(last.log, "SetQuota") # {}
  /\ At(last.log, "Mount") # {}

\* C3: when the overlay mount of create-image fails after diff/, workdir/ and
\* rootfs/ were created, none of the three remains when the call returns.
C3_MountFailureCleansUp ==
  (/\ last.op = "CreateImage"
   /\ \E j \in At(last.log, "Mount") : last.log[j].err # ""
   /\ Cardinality({i \in At(last.log, "Mkdir") : last.log[i].err = ""}) = 3) =>
     /\ ~Exists(fs, upperOf(last.path))
     /\ ~Exists(fs, workOf(last.path))
     /\ ~Exists(fs, rootfsOf(last.path))

\* the calls of destroy-image, in order
DestroySteps(p) ==
  << [call |-> "Unmount", path |-> rootfsOf(p)],
     [call |-> "Remove", path |-> rootfsOf(p)],
     [call |-> "RemoveAll", path |-> workOf(p)],
     [call |-> "RemoveAll", path |-> upperOf(p)] >>

\* C4: destroy-image makes its calls in the order unmount rootfs/, remove
\* rootfs/, remove workdir/, remove diff/ and stops at the first that fails,
\* returning an error: a failed unmount leaves the mount and all three
\* directories, a failed removal of rootfs/ leaves workdir/ and diff/, a failed
\* removal of workdir/ leaves diff/; it returns success only after four
\* successful calls.
C4_DestroyOrder ==
  (last.op = "DestroyImage") =>
     LET log == last.log
         p == last.path
         n == Len(log)
         kept(q) == (q \in DOMAIN last.pre.fs) => Exists(fs, q)
     IN /\ n \in 1..4
        /\ \A i \in 1..n :
              /\ log[i].call = DestroySteps(p)[i].call
              /\ log[i].path = DestroySteps(p)[i].path
              /\ i < n => log[i].err = ""
        /\ last.err = Nil <=> (n = 4 /\ log[4].err = "")
        /\ last.err # Nil => log[n].err # ""
        /\ (last.err # Nil /\ n = 1) =>
              /\ kept(rootfsOf(p)) /\ kept(workOf(p)) /\ kept(upperOf(p))
              /\ Restrict(mounts, {q \in DOMAIN mounts : IsUnder(q, p)}) = last.pre.mounts
        /\ (last.err # Nil /\ n = 2) => kept(workOf(p)) /\ kept(upperOf(p))
        /\ (last.err # Nil /\ n = 3) => kept(upperOf(p))

\* a destroy-image of an existing image that failed to remove workdir/ and so
\* left diff/ in place
C4_Witness ==
  /\ last.op = "DestroyImage"
  /\ last.err # Nil
  /\ Len(last.log) = 3
  /\ upperOf(last.path) \in DOMAIN last.pre.fs
  /\ Exists(fs, upperOf(last.path))
  /\ ~Exists(fs, rootfsOf(last.path))

\* no image at p in snapshot s: none of its directories, no mount
NoImage(s, p) ==
  /\ upperOf(p) \notin DOMAIN s.fs
  /\ workOf(p) \notin DOMAIN s.fs
  /\ rootfsOf(p) \notin DOMAIN s.fs
  /\ rootfsOf(p) \notin DOMAIN s.mounts

\* C5: destroy-image of an image that does not exist (never created, or
\* already destroyed) returns success and changes nothing, when the
\* environment makes no call fail.
C5_DestroyAbsentSucceeds ==
  (/\ last.op = "DestroyImage"
   /\ NoImage(last.pre, last.path)
   /\ ~EnvFailed(last.log)) =>
     /\ last.err = Nil
     /\ Snapshot(last.path) = last.pre

\* after a successful destroy-image, rootfs/ is not mounted and none of
\* rootfs/, workdir/, diff/ exists
DestroyedIsGone ==
  (last.op = "DestroyImage" /\ last.err = Nil) => NoImage(Snapshot(last.path), last.path)

\* a successful create-image followed by a successful destroy-image of the
\* same path restores the directories and mounts the path had before
CreateDestroyRestores ==
  (/\ last.op = "CreateImage" /\ last.err = Nil
   /\ last'.op = "DestroyImage" /\ last'.err = Nil
   /\ last'.path = last.path) =>
     /\ Snapshot(last.path).fs' = last.pre.fs
     /\ Snapshot(last.path).mounts' = last.pre.mounts

\* C6: in every state reached after destroy-image returned success, rootfs/ is
\* not mounted and none of rootfs/, workdir/ and diff/ exists under image-path;
\* a successful create-image followed by a successful destroy-image restores
\* the directory and mount state image-path had before the create.
C6_DeleteTotality == []DestroyedIsGone /\ [][CreateDestroyRestores]_vars

\* a successful destroy-image of an image that was mounted
C6_Witness ==
  /\ last.op = "DestroyImage"
  /\ last.err = Nil
  /\ rootfsOf(last.path) \in DOMAIN last.pre.mounts
  /\ ~Exists(fs, upperOf(last.path))

\* C7: whenever an existence check of create-image does not confirm the path
\* (it is absent, or the check itself fails), the call returns an error having
\* made no call but existence checks: no quota, no directory, no mount.
C7_UnconfirmedPathStops ==
  (/\ last.op = "CreateImage"
   /\ \E i \in At(last.log, "Stat") : last.log[i].err # "") =>
     /\ last.err # Nil
     /\ \A j \in DOMAIN last.log : last.log[j].call = "Stat"
     /\ Snapshot(last.path) = last.pre

\* the result of create-volume and of the volume-path lookup
VolumeCalls ==
  /\ (last.op = "CreateVolume") =>
        /\ (last.path \in DOMAIN last.pre.fs) =>
              /\ last.err # Nil
              /\ last.ret = <<>>
              /\ Snapshot(last.path) = last.pre
        /\ (last.path \notin DOMAIN last.pre.fs /\ ~EnvFailed(last.log)) =>
              /\ last.err = Nil
              /\ last.ret = last.path
              /\ \E id \in VolumeIds : last.path = <<"store", "volumes", id>>
              /\ Exists(fs, last.path)
              /\ fs[last.path] = 448
        /\ last.err = Nil => last.path \notin DOMAIN last.pre.fs
  /\ (last.op = "VolumePath" /\ ~EnvFailed(last.log)) =>
        /\ Exists(fs, last.path) => (last.err = Nil /\ last.ret = last.path)
        /\ ~Exists(fs, last.path) => (last.err # Nil /\ last.ret = <<>>)

\* a volume comes to exist only by a successful create-volume of its id, and
\* once it exists it stays as it is
VolumesOnlyByCreate ==
  \A id \in VolumeIds :
     /\ Exists(fs, VolPath(id)) =>
           (Exists(fs', VolPath(id)) /\ fs'[VolPath(id)] = fs[VolPath(id)])
     /\ (~Exists(fs, VolPath(id)) /\ Exists(fs', VolPath(id))) =>
           /\ last'.op = "CreateVolume"
           /\ last'.path = VolPath(id)
           /\ last'.err = Nil

\* no volume exists that was not created: the store starts without volumes
NoVolumeAtStart == \A id \in VolumeIds : ~Exists(fs, VolPath(id))

\* C8: create-volume(parent-id, id) creates volumes/<id> with mode 0700 and
\* returns its path when no volume with that id exists; when it exists the call
\* returns an error and leaves the volume unchanged.  So each id is created
\* with success at most once, and the lookup returns the path of a created
\* volume and an error for an id never created (the environment making no call
\* fail).
C8_CreateVolumeOnce ==
  NoVolumeAtStart /\ []VolumeCalls /\ [][VolumesOnlyByCreate]_vars

\* a create-volume of an id that exists already: an error, the volume as it was
C8_Witness ==
  /\ last.op = "CreateVolume"
  /\ last.path \in DOMAIN last.pre.fs
  /\ ~EnvFailed(last.log)
  /\ last.err # Nil

\* C9: a create-image on an image-path that holds a created image (diff/,
\* workdir/, rootfs/ exist, rootfs/ mounted) returns an error and leaves the
\* directories, the mount and the quota of that image as they were, whatever
\* disk-limit the call is given.
C9_ClashLeavesImage ==
  (/\ last.op = "CreateImage"
   /\ upperOf(last.path) \in DOMAIN last.pre.fs
   /\ workOf(last.path) \in DOMAIN last.pre.fs
   /\ rootfsOf(last.path) \in DOMAIN last.pre.fs
   /\ rootfsOf(last.path) \in DOMAIN last.pre.mounts) =>
     /\ last.err # Nil
     /\ Snapshot(last.path) = last.pre

\* goroutine t holds mutex mu, for writing or for reading
Holds(t, mu) ==
  \/ t \in mutex[mu].readers
  \/ /\ mutex[mu].w = t
     /\ ~(AtInstr(t, "Lock") /\ Instr(t).mu = mu)

\* goroutine t is inside Lock or RLock of mu and cannot go on
Waits(t, mu) ==
  /\ Running(t)
  /\ Instr(t).mu = mu
  /\ \/ Instr(t).ins = "Lock" /\ phase[t] = "run" /\ mutex[mu].w # 0
     \/ Instr(t).ins = "Lock" /\ phase[t] = "waitReaders" /\ mutex[mu].readers # {}
     \/ Instr(t).ins = "RLock" /\ phase[t] = "asleep" /\ t \notin mutex[mu].readers

\* C10: concurrent calls of Unmount and Invocations on one FakeUnmounter never
\* reach a state where one goroutine holds unmountMutex and waits for
\* invocationsMutex while another holds invocationsMutex and waits for
\* unmountMutex.
C10_NoLockCycle ==
  ~ \E t, u \in Threads :
       /\ t # u
       /\ Holds(t, "unmount") /\ Waits(t, "invocations")
       /\ Holds(u, "invocations") /\ Waits(u, "unmount")

====
